---- MODULE Spec2Model ----
(***************************************************************************)
(* The recommendation pipeline of carRec: CarAnalyzer.get_recommendations  *)
(* (analyzer.py) over the SQLite listing store (database.py) and the       *)
(* completion service (llm_service.py).                                    *)
(*                                                                         *)
(* Python values are modelled as follows.  None is the string "None" where *)
(* the Python value is a string or None (analysis text, criteria text) and *)
(* the integer NoPrice where it is an integer or None (price).  A call     *)
(* that may raise yields a record [raised, val].  rank_score is kept in    *)
(* thousandths (the code divides the offset by 1000).                      *)
(***************************************************************************)
EXTENDS Integers, Sequences, FiniteSets, TLC

VARIABLES
    db,            \* the cars table of each deployment: rows in the order get_cars returns them
    saves,         \* every UPDATE issued by update_car_analysis: {[dep, id, text]}
    upstream,      \* what the provider's HTTP endpoint answers to each request's calls
    svc,           \* the LLMService object: [state, provider, config]
    llm_out,       \* outcomes of the calls made on the service directly
    pc,            \* each request's position in get_recommendations
    criteria_str,  \* argument of get_recommendations
    limit,         \* argument of get_recommendations
    criteria,      \* local of get_recommendations after parsing
    query,         \* the get_cars call the request made
    cars,          \* the request's in-memory listing dictionaries
    idx,           \* loop position of _analyze_cars (1-based)
    ranked,        \* what _rank_cars returned
    path,          \* which return statement of _rank_cars was taken
    result,        \* what get_recommendations returned
    calls,         \* the request's trace of completion calls and sleeps
    home           \* the deployment (store) each request runs against

vars == <<db, saves, upstream, svc, llm_out, pc, criteria_str, limit, criteria, query,
          cars, idx, ranked, path, result, calls, home>>

---------------------------------------------------------------------------
(* Bounds of the model *)

\* Largest free-form store (every combination of price and analysis state).
MaxSmall == 2

\* Program constants.
RankThreshold == 10     \* more analyzed listings than this: heuristic branch
PromptCap     == 30     \* listings sent to the ranking prompt
FetchLimit    == 50     \* oversample requested from the store
DefaultLimit  == 10     \* default of get_recommendations' limit

\* SQL NULL / Python None in the integer column price.
NoPrice == -1

Reqs == {"r1", "r2"}
Deps == {"d1", "d2"}

---------------------------------------------------------------------------
(* Python values *)

\* bool(x) of an analysis value: None and '' are falsy.
Truthy(a) == a \notin {"None", ""}

Ok(v)  == [raised |-> FALSE, val |-> v]
Raise  == [raised |-> TRUE,  val |-> <<>>]

---------------------------------------------------------------------------
(* Strings *)

\* str.find: the 0-based offset of the first occurrence of sub in text, -1 if none.
Find(text, sub) ==
    LET n == Len(text)
        m == Len(sub)
        hits == {p \in 0..(n - m) : SubSeq(text, p + 1, p + m) = sub}
    IN  IF m > n \/ hits = {} THEN 0 - 1
        ELSE CHOOSE p \in hits : \A q \in hits : p <= q

\* sub in text
Contains(text, sub) == Find(text, sub) >= 0

\* Slice without the upper end.
SliceToEnd(text, a, b) == IF a >= Len(text) THEN "" ELSE SubSeq(text, a + 1, Len(text))

\* text[a:b] for 0 <= a <= b (Python clips the slice at the end of the text)
Slice(text, a, b) ==
    LET e == IF b < Len(text) THEN b ELSE Len(text)
    IN  IF a >= e THEN "" ELSE SubSeq(text, a + 1, e)

---------------------------------------------------------------------------
(* The listing store (database.py) *)

\* A row of the cars table as add_cars inserts it: analysis is NULL until
\* update_car_analysis sets it; price is NULL when the scraper found no digits.
Row(id, price, analysis) ==
    [id |-> id, year |-> 2010 + id, make |-> "Honda", model |-> "M" \o ToString(id),
     price |-> price, analysis |-> analysis]

\* dict(row) in get_cars: every column is a key of the dictionary (price and
\* analysis are present with value None when NULL).  rank_score is the key
\* _rank_cars adds; has_score says whether the key is present.
Car(row) ==
    [id |-> row.id, year |-> row.year, make |-> row.make, model |-> row.model,
     price |-> row.price, analysis |-> row.analysis,
     has_score |-> FALSE, rank_score |-> 0]

EmptyMap == [k \in {} |-> 0]

\* json.loads on the criteria texts the model feeds in.
JsonLoads(text) ==
    CASE text = "{}"                  -> Ok([type |-> "dict", map |-> EmptyMap])
      [] text = "{\"max_price\": 15}" -> Ok([type |-> "dict", map |-> [k \in {"max_price"} |-> 15]])
      [] text = "{\"min_year\": 2012}" -> Ok([type |-> "dict", map |-> [k \in {"min_year"} |-> 2012]])
      [] text = "5"                   -> Ok([type |-> "int", map |-> EmptyMap])
      [] OTHER                        -> Raise     \* json.JSONDecodeError

EmptyCriteria == [type |-> "dict", map |-> EmptyMap]

\* ParseCriteria without the except clause's default: the undecoded text is
\* used as the criteria.
ParseCriteriaKeepText(text) ==
    IF text \notin {"None", ""}
    THEN LET r == JsonLoads(text)
         IN  IF r.raised THEN [type |-> "str", map |-> EmptyMap] ELSE r.val
    ELSE EmptyCriteria

\* get_recommendations, "# Parse criteria": criteria = {} unless the text is
\* non-empty and decodes.
ParseCriteria(text) ==
    IF text \notin {"None", ""}
    THEN LET r == JsonLoads(text) IN IF r.raised THEN EmptyCriteria ELSE r.val
    ELSE EmptyCriteria

\* bool(criteria)
CritTruthy(c) == IF c.type = "dict" THEN DOMAIN c.map # {} ELSE TRUE

Has(c, k) == k \in DOMAIN c.map

\* The WHERE clause of get_cars for the numeric keys (a comparison with NULL is
\* not true in SQL).  The criteria texts of the model carry no make/model key.
Matches(row, c) ==
    /\ Has(c, "min_year")  => row.year >= c.map["min_year"]
    /\ Has(c, "max_year")  => row.year <= c.map["max_year"]
    /\ Has(c, "max_price") => (row.price # NoPrice /\ row.price <= c.map["max_price"])
    /\ Has(c, "min_price") => (row.price # NoPrice /\ row.price >= c.map["min_price"])

\* FirstN keeping one entry too many.
FirstNAndOneMore(s, n) == IF Len(s) <= n + 1 THEN s ELSE SubSeq(s, 1, n + 1)

\* s[:n] for n >= 0
FirstN(s, n) == IF Len(s) <= n THEN s ELSE SubSeq(s, 1, n)

\* GetCars without the WHERE clause.
GetCarsNoFilter(rows, c, lim) ==
    IF CritTruthy(c) /\ c.type # "dict" THEN Raise
    ELSE LET hit == FirstN(rows, lim)
         IN  Ok([i \in 1..Len(hit) |-> Car(hit[i])])

\* Database.get_cars(criteria, limit): `'make' in criteria` raises TypeError
\* when criteria is a JSON scalar; otherwise the filtered rows, newest first,
\* at most `limit` of them, each as a dictionary.
GetCars(rows, c, lim) ==
    IF CritTruthy(c) /\ c.type # "dict" THEN Raise
    ELSE LET Keep(row) == CritTruthy(c) => Matches(row, c)
             hit == FirstN(SelectSeq(rows, Keep), lim)
         IN  Ok([i \in 1..Len(hit) |-> Car(hit[i])])

\* Database.update_car_analysis: UPDATE cars SET analysis = ? WHERE id = ?
UpdateCarAnalysis(rows, id, text) ==
    [i \in 1..Len(rows) |->
        IF rows[i].id = id THEN [rows[i] EXCEPT !.analysis = text] ELSE rows[i]]

\* What one call of update_car_analysis comes to:
\*   "ok"      the UPDATE is committed
\*   "failed"  execute or commit raises sqlite3.Error: rolled back, returns False
\*   "raised"  sqlite3.connect raises: the handler reads the unbound local
\*             `conn` and UnboundLocalError leaves the method
SaveKinds == {"ok", "failed", "raised"}

\* SaveAnalysis taking a failed write for the end of the loop body.
SaveAnalysisFailureRaises(rows, id, text, outcome) ==
    IF outcome = "ok"
    THEN [raised |-> FALSE, val |-> TRUE, rows |-> UpdateCarAnalysis(rows, id, text)]
    ELSE [raised |-> TRUE, val |-> FALSE, rows |-> rows]

\* Database.update_car_analysis(car_id, analysis) with the given outcome: the
\* value returned (or the exception) and the rows of the table afterwards.
SaveAnalysis(rows, id, text, outcome) ==
    CASE outcome = "ok" ->
            [raised |-> FALSE, val |-> TRUE, rows |-> UpdateCarAnalysis(rows, id, text)]
      [] outcome = "failed" -> [raised |-> FALSE, val |-> FALSE, rows |-> rows]
      [] OTHER -> [raised |-> TRUE, val |-> FALSE, rows |-> rows]

---------------------------------------------------------------------------
(* The completion service (llm_service.py) *)

\* <Provider>.generate_completion on an upstream answer [kind, content]:
\*   "ok"            choices[0].message.content is the content
\*   "network_error" requests raised RequestException
\*   "bad_json"      the body is not JSON
\*   "no_choices"    the JSON has no (or an empty) choices list
\*   "bad_choice"    choices[0] lacks message/content: KeyError, not caught
GenerateCompletion(resp) ==
    CASE resp.kind = "ok" -> Ok(resp.content)
      [] resp.kind \in {"network_error", "bad_json", "no_choices"} -> Ok("")
      [] OTHER -> Raise

Lower(t) == IF t = "OpenAI" THEN "openai" ELSE t

SupportedProviders == {"deepseek", "openai", "anthropic"}

\* LLMService._initialize_provider: the provider named by the configuration.
\* Without an API key, or with an unsupported provider name, it logs through
\* self.logger and returns None; has_logger says whether self.logger is
\* assigned by then (without it the access raises AttributeError).
InitializeProvider(config, has_logger) ==
    IF config.api_key = "" \/ Lower(config.provider) \notin SupportedProviders
    THEN IF has_logger THEN Ok("None") ELSE Raise
    ELSE Ok(Lower(config.provider))

\* LLMService.__init__: self.provider = self._initialize_provider() runs on
\* line 227, self.logger is assigned on line 228.
NewService(config) ==
    LET p == InitializeProvider(config, FALSE)
    IN  IF p.raised THEN [state |-> "failed", provider |-> "None", config |-> config]
        ELSE [state |-> "ready", provider |-> p.val, config |-> config]

\* LLMService.analyze_car / rank_cars with a provider: build the prompt, return
\* the provider's completion.  Without a provider: the error text.
ServiceComplete(service, resp) ==
    IF service.provider = "None" THEN Ok("Error: LLM provider not available")
    ELSE GenerateCompletion(resp)

---------------------------------------------------------------------------
(* sorted() *)

\* AscendingOrder with equal keys in reverse input order.
AscendingOrderUnstable(keys) ==
    LET n == Len(keys)
        Before(i) == {j \in 1..n : keys[j] < keys[i] \/ (keys[j] = keys[i] /\ j > i)}
    IN  [k \in 1..n |-> CHOOSE i \in 1..n : Cardinality(Before(i)) = k - 1]

\* The stable ascending order of the indices of keys: index i comes after every
\* index with a smaller key and every earlier index with an equal key.
AscendingOrder(keys) ==
    LET n == Len(keys)
        Before(i) == {j \in 1..n : keys[j] < keys[i] \/ (keys[j] = keys[i] /\ j < i)}
    IN  [k \in 1..n |-> CHOOSE i \in 1..n : Cardinality(Before(i)) = k - 1]

\* sorted(..., reverse=True) is stable as well: equal keys keep their order.
DescendingOrder(keys) ==
    LET n == Len(keys)
        Before(i) == {j \in 1..n : keys[j] > keys[i] \/ (keys[j] = keys[i] /\ j < i)}
    IN  [k \in 1..n |-> CHOOSE i \in 1..n : Cardinality(Before(i)) = k - 1]

\* Permute filling every place with the first listing of the order.
PermuteRepeatingFirst(s, order) == [k \in 1..Len(s) |-> s[order[1]]]

\* The listings of s in the given order of their indices.
Permute(s, order) == [k \in 1..Len(s) |-> s[order[k]]]

\* key=lambda x: x.get('price', float('inf')): the key 'price' is present in
\* every dictionary get_cars builds, so a NULL price yields None, not inf.
PriceKey(car) == car.price

\* sorted(cars, key=price key): comparing None with anything raises TypeError,
\* and every element of a list of two or more is compared at least once.
SortedByPrice(s) ==
    LET keys == [i \in 1..Len(s) |-> PriceKey(s[i])]
    IN  IF Len(s) >= 2 /\ \E i \in 1..Len(s) : keys[i] = NoPrice
        THEN Raise
        ELSE Ok(Permute(s, AscendingOrder(keys)))

\* SortedByScore over the listings of the prompt only.
SortedByScoreOfPrompt(s) ==
    LET t    == FirstN(s, PromptCap)
        keys == [i \in 1..Len(t) |-> IF t[i].has_score THEN t[i].rank_score ELSE 0]
    IN  Permute(t, DescendingOrder(keys))

\* sorted(analyzed_cars, key=lambda x: x.get('rank_score', 0), reverse=True)
SortedByScore(s) ==
    LET keys == [i \in 1..Len(s) |-> IF s[i].has_score THEN s[i].rank_score ELSE 0]
    IN  Permute(s, DescendingOrder(keys))

---------------------------------------------------------------------------
(* CarAnalyzer._rank_cars (analyzer.py) *)

PositiveWords == {"recommend", "excellent", "good", "best", "top", "value"}
NegativeWords == {"avoid", "poor", "worst", "concern", "issue", "problem"}
Window == 200
PerMille == 1000
WordWeight == 10

\* f"{car.get('year')} {car.get('make')} {car.get('model')}"
CarIdentifier(car) == ToString(car.year) \o " " \o car.make \o " " \o car.model

\* Score from the keywords alone.
ScoreKeywordsOnly(car, text) ==
    LET position == Find(text, CarIdentifier(car))
        window   == Slice(text, position, position + Window)
        pos      == Cardinality({w \in PositiveWords : Contains(window, w)})
        neg      == Cardinality({w \in NegativeWords : Contains(window, w)})
    IN  IF position < 0 THEN 0
        ELSE WordWeight * PerMille * pos - WordWeight * PerMille * neg

\* Score from the position of the identifier alone.
ScorePositionOnly(car, text) ==
    LET position == Find(text, CarIdentifier(car))
    IN  IF position < 0 THEN 0 ELSE 0 - position

\* The score of one listing against the ranking text, in thousandths.
Score(car, text) ==
    LET position == Find(text, CarIdentifier(car))
        window   == Slice(text, position, position + Window)
        pos      == Cardinality({w \in PositiveWords : Contains(window, w)})
        neg      == Cardinality({w \in NegativeWords : Contains(window, w)})
    IN  IF position < 0 THEN 0
        ELSE (0 - position) + WordWeight * PerMille * pos - WordWeight * PerMille * neg

\* AnalyzedCars without the filter.
AnalyzedCarsNoFilter(s) == s

\* analyzed_cars = [car for car in cars if car.get('analysis')]
AnalyzedCars(s) == SelectSeq(s, LAMBDA car : Truthy(car.analysis))

\* car['rank_score'] = score on every analyzed dictionary (the list `cars`
\* holds the same dictionaries).
WithScores(s, text) ==
    [i \in 1..Len(s) |->
        IF Truthy(s[i].analysis)
        THEN [s[i] EXCEPT !.has_score = TRUE, !.rank_score = Score(s[i], text)]
        ELSE s[i]]

\* except Exception: return sorted(cars, key=price key).  A TypeError raised
\* by this sort leaves _rank_cars.
PriceFallback(s) ==
    LET f == SortedByPrice(s)
    IN  [raised |-> f.raised, val |-> f.val, path |-> "fallback", cars |-> s,
         sent |-> <<>>, called |-> FALSE]

\* PromptCars without the cap.
PromptCarsAll(analyzed) == analyzed

\* analyzed_cars[:30]: the listings the ranking prompt is built from.
PromptCars(analyzed) == FirstN(analyzed, PromptCap)

\* The ids of the listings of the ranking prompt, in prompt order.
PromptIds(analyzed) == [k \in 1..Len(PromptCars(analyzed)) |-> PromptCars(analyzed)[k].id]

\* UsesModel asking for a ranking completion whenever there is something to order.
UsesModelAlways(n) == n > 1

\* `if len(analyzed_cars) > 10`: whether n analyzed listings are ranked with
\* the help of a completion.
UsesModel(n) == n > RankThreshold

\* _rank_cars(cars, preferences) with `completion` the outcome of
\* llm_service.rank_cars should it be called.  The result names the return
\* statement taken (path), the dictionaries as the call leaves them (cars),
\* and whether and with which listings the completion was invoked.
RankCars(s, completion) ==
    LET analyzed == AnalyzedCars(s)
        n        == Len(analyzed)
    IN  IF n <= 1
        THEN [raised |-> FALSE, val |-> analyzed, path |-> "trivial", cars |-> s,
              sent |-> <<>>, called |-> FALSE]
        ELSE IF UsesModel(n)
        THEN IF completion.raised
             THEN [PriceFallback(s) EXCEPT !.called = TRUE,
                                           !.sent = PromptIds(analyzed)]
             ELSE LET scored == WithScores(s, completion.val)
                  IN  [raised |-> FALSE, val |-> SortedByScore(AnalyzedCars(scored)),
                       path |-> "heuristic", cars |-> scored,
                       sent |-> PromptIds(analyzed), called |-> TRUE]
        ELSE LET d == SortedByPrice(analyzed)
             IN  IF d.raised THEN PriceFallback(s)
                 ELSE [raised |-> FALSE, val |-> d.val, path |-> "deterministic",
                       cars |-> s, sent |-> <<>>, called |-> FALSE]

---------------------------------------------------------------------------
(* CarAnalyzer.get_recommendations, one action per stage *)

Store(r) == db[home[r]]

\* Lines 33-46: parse the criteria, query the store, return [] when it has
\* no candidate.  An exception of get_cars leaves get_recommendations.
Fetch(r) ==
    /\ pc[r] = "start"
    /\ LET c   == ParseCriteria(criteria_str[r])
           got == GetCars(Store(r), c, FetchLimit)
       IN  /\ criteria' = [criteria EXCEPT ![r] = c]
           /\ query' = [query EXCEPT ![r] = [asked |-> TRUE, criteria |-> c, max |-> FetchLimit]]
           /\ IF got.raised
              THEN /\ pc' = [pc EXCEPT ![r] = "raised"]
                   /\ UNCHANGED <<cars, result>>
              ELSE IF Len(got.val) = 0
              THEN /\ pc' = [pc EXCEPT ![r] = "done"]
                   /\ result' = [result EXCEPT ![r] = <<>>]
                   /\ UNCHANGED cars
              ELSE /\ pc' = [pc EXCEPT ![r] = "analyze"]
                   /\ cars' = [cars EXCEPT ![r] = got.val]
                   /\ UNCHANGED result
    /\ UNCHANGED <<db, saves, upstream, svc, llm_out, criteria_str, limit, idx, ranked,
                   path, calls, home>>

\* NextCar staying on a listing whose completion failed.
NextCarRetry(i, outcome) ==
    IF outcome.raised \/ outcome.val = "" THEN i ELSE i + 1

\* NextCar leaving the loop at the first failed completion.
NextCarStopOnFailure(i, outcome) ==
    IF outcome.raised \/ outcome.val = "" THEN i + FetchLimit ELSE i + 1

\* The next index of the loop `for car in cars` after the body ran on car i
\* with the given completion outcome: the loop goes on whatever happened.
NextCar(i, outcome) == i + 1

\* NeedsAnalysis without the skip.
NeedsAnalysisAlways(car) == TRUE

\* Whether the body of the loop asks for a completion for this dictionary:
\* `if car.get('analysis'): continue`.
NeedsAnalysis(car) == ~Truthy(car.analysis)

\* One iteration of the loop of _analyze_cars (lines 65-84) on cars[idx].
AnalyzeCar(r) ==
    /\ pc[r] = "analyze"
    /\ idx[r] <= Len(cars[r])
    /\ LET car == cars[r][idx[r]]
           out == ServiceComplete(svc, upstream[r].analysis[car.id])
           sv  == SaveAnalysis(db[home[r]], car.id, out.val, upstream[r].save[car.id])
       IN  IF ~NeedsAnalysis(car)
           THEN /\ idx' = [idx EXCEPT ![r] = idx[r] + 1]
                /\ UNCHANGED <<db, saves, cars, calls>>
           ELSE IF out.raised \/ sv.raised
           THEN \* except Exception: logged; neither stored nor slept
                /\ calls' = [calls EXCEPT ![r] = Append(@, [op |-> "analyze", arg |-> car.id, ids |-> <<>>])]
                /\ idx' = [idx EXCEPT ![r] = NextCar(idx[r], out)]
                /\ UNCHANGED <<db, saves, cars>>
           ELSE /\ db' = [db EXCEPT ![home[r]] = sv.rows]
                /\ saves' = IF sv.val
                            THEN saves \cup {[dep |-> home[r], id |-> car.id, text |-> out.val]}
                            ELSE saves
                /\ cars' = [cars EXCEPT ![r][idx[r]].analysis = out.val]
                /\ calls' = [calls EXCEPT ![r] =
                                @ \o <<[op |-> "analyze", arg |-> car.id, ids |-> <<>>],
                                       [op |-> "sleep", arg |-> 0, ids |-> <<>>]>>]
                /\ idx' = [idx EXCEPT ![r] = NextCar(idx[r], out)]
    /\ UNCHANGED <<upstream, svc, llm_out, pc, criteria_str, limit, criteria, query, ranked,
                   path, result, home>>

\* LoopDone after the first listing.
LoopDoneAfterFirst(i, cs) == i > 1

\* `for car in cars` of _analyze_cars has run out: line 52 follows line 49.
LoopDone(i, cs) == i > Len(cs)

\* Line 52: ranked_cars = self._rank_cars(cars, criteria), once the loop is over.
Rank(r) ==
    /\ pc[r] = "analyze"
    /\ LoopDone(idx[r], cars[r])
    /\ LET rk == RankCars(cars[r], ServiceComplete(svc, upstream[r].ranking))
       IN  /\ cars' = [cars EXCEPT ![r] = rk.cars]
           /\ path' = [path EXCEPT ![r] = rk.path]
           /\ calls' = [calls EXCEPT ![r] =
                           IF rk.called
                           THEN Append(@, [op |-> "rank", arg |-> Len(rk.sent), ids |-> rk.sent])
                           ELSE @]
           /\ IF rk.raised
              THEN /\ pc' = [pc EXCEPT ![r] = "raised"]
                   /\ UNCHANGED ranked
              ELSE /\ pc' = [pc EXCEPT ![r] = "return"]
                   /\ ranked' = [ranked EXCEPT ![r] = rk.val]
    /\ UNCHANGED <<db, saves, upstream, svc, llm_out, criteria_str, limit, criteria, query,
                   idx, result, home>>

\* Line 55: return ranked_cars[:limit]
Return(r) ==
    /\ pc[r] = "return"
    /\ result' = [result EXCEPT ![r] = FirstN(ranked[r], limit[r])]
    /\ pc' = [pc EXCEPT ![r] = "done"]
    /\ UNCHANGED <<db, saves, upstream, svc, llm_out, criteria_str, limit, criteria, query,
                   cars, idx, ranked, path, calls, home>>

Next == \E r \in Reqs : Fetch(r) \/ AnalyzeCar(r) \/ Rank(r) \/ Return(r)

---------------------------------------------------------------------------
(* Initial states *)

Prices == {NoPrice, 10, 20}

StoredText(id) == "stored " \o ToString(id)
NewText(id)    == "new " \o ToString(id)

\* Every store of at most MaxSmall rows.
SmallStores ==
    UNION {{[i \in 1..n |-> Row(i, p[i], IF a[i] THEN StoredText(i) ELSE "None")] :
              p \in [1..n -> Prices], a \in [1..n -> BOOLEAN]} : n \in 0..MaxSmall}

\* Analyzed stores of one row more, every price known: equal prices occur
\* next to each other and apart.
TieStores ==
    {[i \in 1..(MaxSmall + 1) |-> Row(i, p[i], StoredText(i))] :
        p \in [1..(MaxSmall + 1) -> Prices \ {NoPrice}]}

\* Stores around the ranking threshold: prices fall with the row number, at
\* most one price is NULL and a few rows are not analyzed yet.
LargeSizes == {RankThreshold + 1, RankThreshold + 2}

LargeStoresOf(sizes, nulls, unanalyzed) ==
    {[i \in 1..n |-> Row(i, IF i = nullAt THEN NoPrice ELSE 100 - i,
                         IF i \in un THEN "None" ELSE StoredText(i))] :
        n \in sizes, nullAt \in nulls, un \in unanalyzed}

LargeStores == LargeStoresOf(LargeSizes, {0, 5}, {{}, {2}, {2, 7}})

\* A store of more analyzed rows than a ranking prompt takes.
HugeStores == LargeStoresOf({PromptCap + 1}, {0}, {{}})

\* What the endpoint can answer to a prompt: a completion, a failed request,
\* or a JSON body whose first choice has no message.
AnswerKinds == {"ok", "network_error", "bad_choice"}

Answer(kind, text) == [kind |-> kind, content |-> IF kind = "ok" THEN text ELSE ""]

RankingText == "1. 2013 Honda M3 - excellent value. 2. 2011 Honda M1 has a known issue"

\* A ranking in which praise and a reservation share one window.
MixedText == "2013 Honda M3 is excellent but has a known issue"

\* A ranking that repeats a keyword.
RepeatText == "1. 2014 Honda M4 - excellent. 2. 2012 Honda M2 - good price, good mileage"

Filler == "--------------------------------------------------"

\* A ranking longer than the window: "avoid" lies beyond the 200 characters
\* that start at the first identifier and within those of the second.
LongText ==
    "1. 2015 Honda M5 " \o Filler \o Filler \o Filler \o Filler \o " 2016 Honda M6 - best value, avoid rust"

\* A ranking that names a listing beyond the first 30.
DeepText == "1. 2041 Honda M31 - top pick. 2. 2011 Honda M1 - good"

RankingTexts == {RankingText, MixedText, RepeatText, LongText, DeepText}

\* What happens to an unanalyzed listing: the endpoint's answer and, for a
\* completion that arrives, the outcome of the write.
\* Fates of the stores around the ranking threshold keep to a working store.
WritingFates == {[kind |-> k, save |-> "ok"] : k \in AnswerKinds}

Fates == WritingFates \cup {[kind |-> "ok", save |-> v] : v \in SaveKinds}

Unanalyzed(rows) == {i \in 1..Len(rows) : ~Truthy(rows[i].analysis)}

\* The endpoint's answers and the store's write outcomes to one request over a
\* store: free for the rows that lack an analysis, and for the ranking prompt
\* when one can be sent.
Answers(rows) ==
    {[analysis |-> [i \in 1..Len(rows) |->
                       Answer(IF i \in Unanalyzed(rows) THEN f[i].kind ELSE "ok", NewText(i))],
      save |-> [i \in 1..Len(rows) |-> IF i \in Unanalyzed(rows) THEN f[i].save ELSE "ok"],
      ranking |-> rk] :
        f \in [Unanalyzed(rows) -> IF Len(rows) > RankThreshold THEN WritingFates ELSE Fates],
        rk \in IF Len(rows) > RankThreshold
               THEN {Answer(k, t) : k \in AnswerKinds, t \in RankingTexts}
               ELSE {Answer("network_error", "")}}

CriteriaTexts == {"None", "", "{bad", "{}", "{\"max_price\": 15}", "5"}
Limits == {1, DefaultLimit}

\* main(): llm_service = LLMService(config.llm_config), here with a key.
Ready == NewService([provider |-> "deepseek", api_key |-> "key"])

Idle(f) == [r \in Reqs |-> f]

\* The locals of a request that has not run yet.
InitLocals ==
    /\ saves = {}
    /\ svc = Ready
    /\ llm_out = <<>>
    /\ \E l \in Limits : limit = Idle(l)
    /\ criteria = Idle(EmptyCriteria)
    /\ query = Idle([asked |-> FALSE, criteria |-> EmptyCriteria, max |-> 0])
    /\ cars = Idle(<<>>)
    /\ idx = Idle(1)
    /\ ranked = Idle(<<>>)
    /\ path = Idle("none")
    /\ result = Idle(<<>>)
    /\ calls = Idle(<<>>)

\* One request (r1) against one store.
Init ==
    /\ \E rows \in SmallStores \cup TieStores \cup LargeStores \cup HugeStores :
          /\ db = [d \in Deps |-> IF d = "d1" THEN rows ELSE <<>>]
          /\ \E u \in Answers(rows) : upstream = Idle(u)
    /\ home = Idle("d1")
    /\ pc = [r \in Reqs |-> IF r = "r1" THEN "start" ELSE "idle"]
    /\ \E t \in CriteriaTexts : criteria_str = Idle(t)
    /\ InitLocals

Spec == Init /\ [][Next]_vars

\* Two deployments with the same store content and the same endpoint answers:
\* r1 is called with criteria text that does not decode, r2 with no criteria.
MalformedTexts == {"{bad", "max_price=15"}

ReplayStores == SmallStores \cup LargeStoresOf({RankThreshold + 1}, {0}, {{2}})

InitReplay ==
    /\ \E rows \in ReplayStores :
          /\ db = [d \in Deps |-> rows]
          /\ \E u \in Answers(rows) : upstream = Idle(u)
    /\ home = [r \in Reqs |-> IF r = "r1" THEN "d1" ELSE "d2"]
    /\ pc = Idle("start")
    /\ \E t \in MalformedTexts :
          criteria_str = [r \in Reqs |-> IF r = "r1" THEN t ELSE "None"]
    /\ InitLocals

SpecReplay == InitReplay /\ [][Next]_vars

\* Two web requests on one deployment, each with completions of its own: the
\* analyze route runs get_recommendations in the thread of its request.
OtherText(id) == "other " \o ToString(id)

\* Stores of known, equal prices.
SharedStores == {rows \in SmallStores : \A i \in 1..Len(rows) : rows[i].price = 10}

\* The answers to the second request: as Answers over a working store, with
\* completion texts of its own.
OtherAnswers(rows) ==
    {[analysis |-> [i \in 1..Len(rows) |->
                       Answer(IF i \in Unanalyzed(rows) THEN f[i] ELSE "ok", OtherText(i))],
      save |-> [i \in 1..Len(rows) |-> "ok"],
      ranking |-> Answer("network_error", "")] :
        f \in [Unanalyzed(rows) -> AnswerKinds]}

InitShared ==
    /\ \E rows \in SharedStores :
          /\ db = [d \in Deps |-> IF d = "d1" THEN rows ELSE <<>>]
          /\ \E u \in Answers(rows), v \in OtherAnswers(rows) :
                upstream = [r \in Reqs |-> IF r = "r1" THEN u ELSE v]
    /\ home = Idle("d1")
    /\ pc = Idle("start")
    /\ criteria_str = Idle("{}")
    /\ InitLocals

SpecShared == InitShared /\ [][Next]_vars

---------------------------------------------------------------------------
(* The completion service driven directly *)

\* Calls made on one service object.
MaxCalls == 2

Configs == [provider : SupportedProviders \cup {"OpenAI", "other"}, api_key : {"", "key"}]

ServiceAnswers ==
    {Answer(k, "assessment") : k \in AnswerKinds \cup {"bad_json", "no_choices"}}

\* LLMService(config)
Construct ==
    /\ svc.state = "new"
    /\ svc' = NewService(svc.config)
    /\ UNCHANGED <<db, saves, upstream, llm_out, pc, criteria_str, limit, criteria,
                   query, cars, idx, ranked, path, result, calls, home>>

\* llm_service.analyze_car(car, preferences) / rank_cars(cars, preferences)
ServiceCall ==
    /\ svc.state = "ready"
    /\ Len(llm_out) < MaxCalls
    /\ \E fn \in {"analyze_car", "rank_cars"}, a \in ServiceAnswers :
          LET out == ServiceComplete(svc, a)
          IN  llm_out' = Append(llm_out, [fn |-> fn, kind |-> a.kind, raised |-> out.raised,
                                          val |-> IF out.raised THEN "" ELSE out.val])
    /\ UNCHANGED <<db, saves, upstream, svc, pc, criteria_str, limit, criteria,
                   query, cars, idx, ranked, path, result, calls, home>>

NextLLM == Construct \/ ServiceCall

InitLLM ==
    /\ \E c \in Configs : svc = [state |-> "new", provider |-> "None", config |-> c]
    /\ llm_out = <<>>
    /\ db = [d \in Deps |-> <<>>]
    /\ upstream = Idle([analysis |-> <<>>, save |-> <<>>, ranking |-> Answer("network_error", "")])
    /\ home = Idle("d1")
    /\ pc = Idle("idle")
    /\ criteria_str = Idle("None")
    /\ saves = {}
    /\ limit = Idle(DefaultLimit)
    /\ criteria = Idle(EmptyCriteria)
    /\ query = Idle([asked |-> FALSE, criteria |-> EmptyCriteria, max |-> 0])
    /\ cars = Idle(<<>>)
    /\ idx = Idle(1)
    /\ ranked = Idle(<<>>)
    /\ path = Idle("none")
    /\ result = Idle(<<>>)
    /\ calls = Idle(<<>>)

SpecLLM == InitLLM /\ [][NextLLM]_vars

---------------------------------------------------------------------------
(* The analysis prompt (llm_service.py) *)

\* A dictionary key that is not there.
Absent == "<absent>"

PromptFields == <<"year", "make", "model", "price">>
PromptLabels == <<"- Year: ", "- Make: ", "- Model: ", "- Price: $">>

\* car_data.get(key, default) inside an f-string: the default for a key that
\* is not there, str() of the value for one that is (str(None) is "None").
GetText(car_data, key, default) ==
    IF car_data[key] = Absent THEN default ELSE car_data[key]

\* LLMService._build_car_analysis_prompt: the CAR DETAILS lines of the prompt
\* for year, make, model and price.
BuildCarAnalysisPrompt(car_data) ==
    [k \in 1..Len(PromptFields) |->
        PromptLabels[k] \o GetText(car_data, PromptFields[k], "Unknown")]

\* Dictionaries as a caller can build them and as get_cars delivers them:
\* every field absent, None (a NULL column) or a value.
PromptInputs ==
    [year : {Absent, "None", "2011"}, make : {Absent, "None", "Honda"},
     model : {Absent, "None", "M1"}, price : {Absent, "None", "10"},
     source : {Absent, "site"}]

\* self._build_car_analysis_prompt(car_data, preferences)
BuildPrompt ==
    /\ svc.state = "ready"
    /\ llm_out = <<>>
    /\ \E d \in PromptInputs :
          llm_out' = <<[fn |-> "_build_car_analysis_prompt", car_data |-> d,
                        raised |-> FALSE, val |-> BuildCarAnalysisPrompt(d)]>>
    /\ UNCHANGED <<db, saves, upstream, svc, pc, criteria_str, limit, criteria,
                   query, cars, idx, ranked, path, result, calls, home>>

NextPrompt == BuildPrompt

InitPrompt ==
    /\ svc = Ready
    /\ llm_out = <<>>
    /\ db = [d \in Deps |-> <<>>]
    /\ upstream = Idle([analysis |-> <<>>, save |-> <<>>, ranking |-> Answer("network_error", "")])
    /\ home = Idle("d1")
    /\ pc = Idle("idle")
    /\ criteria_str = Idle("None")
    /\ saves = {}
    /\ limit = Idle(DefaultLimit)
    /\ criteria = Idle(EmptyCriteria)
    /\ query = Idle([asked |-> FALSE, criteria |-> EmptyCriteria, max |-> 0])
    /\ cars = Idle(<<>>)
    /\ idx = Idle(1)
    /\ ranked = Idle(<<>>)
    /\ path = Idle("none")
    /\ result = Idle(<<>>)
    /\ calls = Idle(<<>>)

SpecPrompt == InitPrompt /\ [][NextPrompt]_vars

---------------------------------------------------------------------------
(* Properties *)

Finished(r) == pc[r] \in {"done", "raised"}

\* _rank_cars has run for request r.
RankRan(r) == path[r] # "none"

\* The number of analyzed listings _rank_cars was given.
NumAnalyzed(r) == Cardinality({i \in 1..Len(cars[r]) : Truthy(cars[r][i].analysis)})

Ids(s) == {s[i].id : i \in 1..Len(s)}

\* Ascending by price with every unknown price after every known one.
PriceOrdered(s) ==
    \A i, j \in 1..Len(s) :
        i < j => /\ (s[i].price = NoPrice => s[j].price = NoPrice)
                 /\ (s[i].price # NoPrice /\ s[j].price # NoPrice => s[i].price <= s[j].price)

\* s holds exactly the listings of t, each once.
SameListings(s, t) == Len(s) = Len(t) /\ Ids(s) = Ids(t) /\ Cardinality(Ids(s)) = Len(s)

AnalyzeCalled(r, id) ==
    \E k \in 1..Len(calls[r]) : calls[r][k].op = "analyze" /\ calls[r][k].arg = id

\* C1: get_recommendations never raises: whatever the criteria text, the store
\* content and the completion outcomes, the request returns a sequence.
C1_NeverRaises == \A r \in Reqs : pc[r] # "raised"

\* C2: a request with undecodable criteria text behaves as a request with no
\* criteria: the same store query (empty criteria, at most 50), the same
\* completion calls, the same writes, the same outcome and returned sequence.
C2_MalformedLikeAbsent ==
    (Finished("r1") /\ Finished("r2")) =>
        /\ query["r1"] = query["r2"]
        /\ query["r1"] = [asked |-> TRUE, criteria |-> EmptyCriteria, max |-> FetchLimit]
        /\ calls["r1"] = calls["r2"]
        /\ db["d1"] = db["d2"]
        /\ pc["r1"] = pc["r2"]
        /\ result["r1"] = result["r2"]

C2_Witness ==
    /\ pc["r1"] = "done" /\ pc["r2"] = "done"
    /\ criteria_str["r1"] \in MalformedTexts
    /\ Len(result["r1"]) >= 2
    /\ \E k \in 1..Len(calls["r1"]) : calls["r1"][k].op = "analyze"

\* C3: with 1 < n <= 10 analyzed listings _rank_cars returns the analyzed
\* listings in ascending price order, unknown prices last.
C3_DeterministicSorted ==
    \A r \in Reqs :
        (RankRan(r) /\ 1 < NumAnalyzed(r) /\ NumAnalyzed(r) <= RankThreshold) =>
            /\ pc[r] # "raised"
            /\ SameListings(ranked[r], AnalyzedCars(cars[r]))
            /\ PriceOrdered(ranked[r])

\* C4: with more than 10 analyzed listings and the empty string as ranking
\* completion, _rank_cars returns all the supplied listings in ascending price
\* order, unknown prices last (stated here for listings whose prices are all
\* known).
C4_EmptyRankingFallsBack ==
    \A r \in Reqs :
        (/\ RankRan(r)
         /\ NumAnalyzed(r) > RankThreshold
         /\ \A i \in 1..Len(cars[r]) : cars[r][i].price # NoPrice
         /\ ServiceComplete(svc, upstream[r].ranking) = Ok("")) =>
            /\ pc[r] # "raised"
            /\ SameListings(ranked[r], cars[r])
            /\ PriceOrdered(ranked[r])

\* C5: when the ranking completion raises in the heuristic branch, _rank_cars
\* does not raise and returns all the supplied listings, analyzed or not, in
\* ascending price order, unknown prices last.
C5_HeuristicFailureFallsBack ==
    \A r \in Reqs :
        (/\ RankRan(r)
         /\ NumAnalyzed(r) > RankThreshold
         /\ ServiceComplete(svc, upstream[r].ranking).raised) =>
            /\ pc[r] # "raised"
            /\ SameListings(ranked[r], cars[r])
            /\ PriceOrdered(ranked[r])

\* C6: what _rank_cars returns is no longer than the number of analyzed
\* listings it was given and holds no unanalyzed listing, except on the
\* price-sort fallback, which returns all the listings it was given.
C6_OnlyAnalyzedRanked ==
    \A r \in Reqs :
        (RankRan(r) /\ pc[r] \in {"return", "done"}) =>
            IF path[r] = "fallback"
            THEN SameListings(ranked[r], cars[r])
            ELSE /\ Len(ranked[r]) <= NumAnalyzed(r)
                 /\ \A i \in 1..Len(ranked[r]) : Truthy(ranked[r][i].analysis)

C6_Witness ==
    \E r \in Reqs :
        /\ pc[r] = "return"
        /\ path[r] \in {"deterministic", "heuristic"}
        /\ \E i \in 1..Len(cars[r]) : ~Truthy(cars[r][i].analysis)
        /\ Len(ranked[r]) >= 2

\* C7: update_car_analysis is called only with a non-empty completion result:
\* an empty result writes no analysis to the store.
C7_NoEmptyAnalysisSaved == \A w \in saves : w.text # ""

\* C8: the completion service never raises to its caller and answers every
\* failure (network error, malformed upstream response, absent credential or
\* provider) with the empty string.
C8_EmptyStringOnFailure ==
    /\ svc.state # "failed"
    /\ \A k \in 1..Len(llm_out) :
          /\ ~llm_out[k].raised
          /\ llm_out[k].kind # "ok" => llm_out[k].val = ""

\* C9: _analyze_cars asks for no completion for a listing that carries a
\* non-empty analysis.
C9_NoCallForAnalyzed ==
    [][\A r \in Reqs : \A i \in 1..Len(cars[r]) :
          Truthy(cars[r][i].analysis) =>
              (AnalyzeCalled(r, cars[r][i].id)' <=> AnalyzeCalled(r, cars[r][i].id))]_vars

C9_Witness ==
    \E r \in Reqs : \E i, j \in 1..Len(cars[r]) :
        /\ i < idx[r] /\ j < idx[r]
        /\ cars[r][i].analysis = StoredText(cars[r][i].id)
        /\ ~AnalyzeCalled(r, cars[r][i].id)
        /\ AnalyzeCalled(r, cars[r][j].id)

\* C10: once _analyze_cars is over, every listing that lacked an analysis was
\* asked about, and each one whose completion came back non-empty carries that
\* text as its analysis, whatever happened to the others.
C10_FailureIsolated ==
    \A r \in Reqs :
        (pc[r] \in {"analyze", "return", "done"} /\ idx[r] > Len(cars[r])) =>
            \A i \in 1..Len(cars[r]) :
                LET car == cars[r][i]
                    out == ServiceComplete(svc, upstream[r].analysis[car.id])
                IN  /\ Truthy(car.analysis) \/ AnalyzeCalled(r, car.id)
                    /\ (/\ AnalyzeCalled(r, car.id) /\ ~out.raised /\ out.val # ""
                        /\ upstream[r].save[car.id] # "raised")
                          => car.analysis = out.val

C10_Witness ==
    \E r \in Reqs : \E i, j \in 1..Len(cars[r]) :
        /\ idx[r] > Len(cars[r])
        /\ i < j
        /\ AnalyzeCalled(r, cars[r][i].id) /\ AnalyzeCalled(r, cars[r][j].id)
        /\ ServiceComplete(svc, upstream[r].analysis[cars[r][i].id]) = Ok("")
        /\ cars[r][i].analysis = ""
        /\ cars[r][j].analysis = NewText(cars[r][j].id)

\* C11: within one _analyze_cars run the sleep is executed between every two
\* consecutive completion calls, whatever the outcome of the earlier one: the
\* trace never holds two analysis calls with nothing between them.
C11_DelayBetweenCalls ==
    \A r \in Reqs : \A k \in 1..(Len(calls[r]) - 1) :
        ~(calls[r][k].op = "analyze" /\ calls[r][k + 1].op = "analyze")

\* The place of listing `id` in s.
PlaceOf(s, id) == CHOOSE k \in 1..Len(s) : s[k].id = id

\* C12: in the deterministic branch two listings with the same price come out
\* in the relative order they had in the input.
C12_EqualPricesKeepOrder ==
    \A r \in Reqs :
        (path[r] = "deterministic" /\ pc[r] \in {"return", "done"}) =>
            \A i, j \in 1..Len(ranked[r]) :
                (i < j /\ ranked[r][i].price = ranked[r][j].price) =>
                    PlaceOf(cars[r], ranked[r][i].id) < PlaceOf(cars[r], ranked[r][j].id)

C12_Witness ==
    \E r \in Reqs :
        /\ path[r] = "deterministic" /\ pc[r] = "return"
        /\ Len(ranked[r]) = MaxSmall + 1
        /\ ranked[r][1].id # cars[r][1].id
        /\ \E i, j \in 1..Len(cars[r]) :
              i + 1 < j /\ cars[r][i].price = cars[r][j].price

RankCalls(r) == {k \in 1..Len(calls[r]) : calls[r][k].op = "rank"}

\* C13: _rank_cars given no analyzed listing returns the empty sequence, given
\* exactly one it returns that listing as it was, and with at most 10 analyzed
\* listings it asks for no ranking completion.
C13_SmallSetsNeedNoModel ==
    \A r \in Reqs :
        RankRan(r) =>
            /\ NumAnalyzed(r) = 0 => (pc[r] # "raised" /\ ranked[r] = <<>>)
            /\ NumAnalyzed(r) = 1 =>
                  /\ pc[r] # "raised"
                  /\ Len(ranked[r]) = 1
                  /\ Truthy(ranked[r][1].analysis)
                  /\ ~ranked[r][1].has_score
                  /\ \E i \in 1..Len(cars[r]) : cars[r][i] = ranked[r][1]
            /\ NumAnalyzed(r) <= RankThreshold => RankCalls(r) = {}

C13_Witness ==
    \E r \in Reqs :
        /\ pc[r] = "return"
        /\ NumAnalyzed(r) = 1
        /\ Len(cars[r]) = MaxSmall
        /\ ranked[r] = <<cars[r][MaxSmall]>>

\* C14: get_recommendations returns the first `limit` entries of the ranked
\* sequence in ranked order, the whole of it when it is shorter, and never
\* more than `limit` entries.
C14_FirstLimitReturned ==
    \A r \in Reqs :
        pc[r] = "done" =>
            /\ Len(result[r]) <= limit[r]
            /\ Len(result[r]) = IF Len(ranked[r]) < limit[r] THEN Len(ranked[r]) ELSE limit[r]
            /\ \A k \in 1..Len(result[r]) : result[r][k] = ranked[r][k]

C14_Witness ==
    \E r \in Reqs :
        /\ pc[r] = "done"
        /\ limit[r] = DefaultLimit
        /\ Len(ranked[r]) > limit[r]
        /\ Len(result[r]) = limit[r]

\* C15: a request whose criteria no row of the store satisfies (the store
\* returns no candidates) returns the empty sequence, asks for no completion
\* and writes nothing to the store.
C15_NoCandidatesNoWork ==
    \A r \in Reqs :
        (/\ pc[r] = "done"
         /\ \A i \in 1..Len(Store(r)) : ~Matches(Store(r)[i], criteria[r])) =>
            /\ result[r] = <<>>
            /\ calls[r] = <<>>
            /\ \A w \in saves : w.dep # home[r]

C15_Witness ==
    \E r \in Reqs :
        /\ pc[r] = "done"
        /\ query[r].asked
        /\ Has(criteria[r], "max_price")
        /\ Len(Store(r)) = MaxSmall
        /\ \E i \in 1..Len(Store(r)) : ~Truthy(Store(r)[i].analysis)
        /\ \A i \in 1..Len(Store(r)) : ~Matches(Store(r)[i], criteria[r])
        /\ result[r] = <<>> /\ calls[r] = <<>>

\* The ranking text the heuristic branch of request r works on.
RankingOf(r) == ServiceComplete(svc, upstream[r].ranking).val

HeuristicDone(r) == path[r] = "heuristic" /\ pc[r] \in {"return", "done"}

\* The 200 characters of the ranking text that start at the identifier.
WindowOf(car, text) ==
    Slice(text, Find(text, CarIdentifier(car)), Find(text, CarIdentifier(car)) + Window)

Mentioned(car, text) == Find(text, CarIdentifier(car)) >= 0

\* The identifier occurs early and "excellent" follows within the window.
Praised(car, text) ==
    /\ Mentioned(car, text)
    /\ Find(text, CarIdentifier(car)) < WordWeight * PerMille
    /\ Contains(WindowOf(car, text), "excellent")

\* The places in s of the praised listings whose window holds no word of `bad`.
PraisedPlaces(s, text, bad) ==
    {i \in 1..Len(s) : /\ Praised(s[i], text)
                       /\ \A w \in bad : ~Contains(WindowOf(s[i], text), w)}

UnmentionedPlaces(s, text) == {j \in 1..Len(s) : ~Mentioned(s[j], text)}

\* C16: in the heuristic branch a listing whose identifier occurs early in the
\* ranking text with "excellent" within the next 200 characters scores
\* strictly more than a listing that is not mentioned, and precedes it.
C16_PraisedBeatsUnmentioned ==
    \A r \in Reqs :
        HeuristicDone(r) =>
            \A i \in PraisedPlaces(ranked[r], RankingOf(r), {}) :
                \A j \in UnmentionedPlaces(ranked[r], RankingOf(r)) :
                    /\ ranked[r][j].rank_score = 0
                    /\ ranked[r][i].rank_score > 0
                    /\ i < j

\* C16, amended: the same, for a window that holds no negative keyword.
C16_PraisedUnblemishedBeatsUnmentioned ==
    \A r \in Reqs :
        HeuristicDone(r) =>
            \A i \in PraisedPlaces(ranked[r], RankingOf(r), NegativeWords) :
                \A j \in UnmentionedPlaces(ranked[r], RankingOf(r)) :
                    /\ ranked[r][j].rank_score = 0
                    /\ ranked[r][i].rank_score > 0
                    /\ i < j

C16_Witness ==
    \E r \in Reqs :
        /\ HeuristicDone(r)
        /\ RankingOf(r) = RepeatText
        /\ Praised(ranked[r][1], RankingOf(r))
        /\ ranked[r][1].id # cars[r][1].id
        /\ \E j \in 1..Len(ranked[r]) : ~Mentioned(ranked[r][j], RankingOf(r))

\* The offsets at which w occurs in the text wholly within [lo, hi).
OccurrencesIn(text, w, lo, hi) ==
    {q \in lo..(hi - Len(w)) : q + Len(w) <= Len(text) /\ SubSeq(text, q + 1, q + Len(w)) = w}

\* The occurrences of the words of `words` in the window of the listing.
WindowHits(car, text, words) ==
    LET p == Find(text, CarIdentifier(car))
    IN  UNION {{<<w, q>> : q \in OccurrencesIn(text, w, p, p + Window)} : w \in words}

HitWords(hits) == {h[1] : h \in hits}

\* C17: the heuristic score (in thousandths) of a listing whose identifier
\* first occurs at offset p is -p, plus 10000 for each occurrence of a positive
\* keyword in the 200 characters from p, minus 10000 for each occurrence of a
\* negative keyword there; a listing that is not mentioned scores 0.
C17_ScorePerOccurrence ==
    \A r \in Reqs :
        HeuristicDone(r) =>
            \A i \in 1..Len(ranked[r]) :
                LET car  == ranked[r][i]
                    text == RankingOf(r)
                IN  /\ car.has_score
                    /\ car.rank_score =
                          IF ~Mentioned(car, text) THEN 0
                          ELSE (0 - Find(text, CarIdentifier(car)))
                               + WordWeight * PerMille * Cardinality(WindowHits(car, text, PositiveWords))
                               - WordWeight * PerMille * Cardinality(WindowHits(car, text, NegativeWords))

\* C17, amended: plus 10000 for each positive keyword that occurs in the
\* window, minus 10000 for each negative keyword that occurs there, however
\* often it occurs.
C17_ScorePerKeyword ==
    \A r \in Reqs :
        HeuristicDone(r) =>
            \A i \in 1..Len(ranked[r]) :
                LET car  == ranked[r][i]
                    text == RankingOf(r)
                IN  /\ car.has_score
                    /\ car.rank_score =
                          IF ~Mentioned(car, text) THEN 0
                          ELSE (0 - Find(text, CarIdentifier(car)))
                               + WordWeight * PerMille
                                    * Cardinality(HitWords(WindowHits(car, text, PositiveWords)))
                               - WordWeight * PerMille
                                    * Cardinality(HitWords(WindowHits(car, text, NegativeWords)))

C17_Witness ==
    \E r \in Reqs :
        /\ HeuristicDone(r)
        /\ \E i \in 1..Len(ranked[r]) :
              /\ Mentioned(ranked[r][i], RankingOf(r))
              /\ Find(RankingOf(r), CarIdentifier(ranked[r][i])) > 0
              /\ Cardinality(WindowHits(ranked[r][i], RankingOf(r), PositiveWords)) = 2
              /\ HitWords(WindowHits(ranked[r][i], RankingOf(r), PositiveWords)) = {"good"}

\* C18: the heuristic branch returns every analyzed listing, each one scored,
\* also those beyond the first 30, in descending score order, listings of
\* equal score in their input order.
C18_AllScoredAndOrdered ==
    \A r \in Reqs :
        HeuristicDone(r) =>
            /\ Len(ranked[r]) = NumAnalyzed(r)
            /\ Ids(ranked[r]) = {cars[r][i].id : i \in {k \in 1..Len(cars[r]) : Truthy(cars[r][k].analysis)}}
            /\ \A i \in 1..Len(ranked[r]) : ranked[r][i].has_score
            /\ \A i, j \in 1..Len(ranked[r]) :
                  i < j =>
                     /\ ranked[r][i].rank_score >= ranked[r][j].rank_score
                     /\ ranked[r][i].rank_score = ranked[r][j].rank_score
                           => PlaceOf(cars[r], ranked[r][i].id) < PlaceOf(cars[r], ranked[r][j].id)

C18_Witness ==
    \E r \in Reqs :
        /\ HeuristicDone(r)
        /\ Len(ranked[r]) = PromptCap + 1
        /\ ranked[r][1].id = PromptCap + 1
        /\ ranked[r][2].id = 1
        /\ ranked[r][3].rank_score = ranked[r][4].rank_score

\* The id of the m-th analyzed listing of s.
NthAnalyzedId(s, m) ==
    s[CHOOSE i \in 1..Len(s) :
         /\ Truthy(s[i].analysis)
         /\ Cardinality({j \in 1..i : Truthy(s[j].analysis)}) = m].id

\* C19: with more than 10 analyzed listings _rank_cars asks for exactly one
\* ranking completion, for a prompt built from the first min(n, 30) analyzed
\* listings in the order received.
C19_OneRankingCallOnFirstThirty ==
    \A r \in Reqs :
        (RankRan(r) /\ NumAnalyzed(r) > RankThreshold) =>
            /\ Cardinality(RankCalls(r)) = 1
            /\ \A k \in RankCalls(r) :
                  LET ids == calls[r][k].ids
                  IN  /\ Len(ids) <= PromptCap
                      /\ Len(ids) = IF NumAnalyzed(r) < PromptCap THEN NumAnalyzed(r) ELSE PromptCap
                      /\ \A m \in 1..Len(ids) : ids[m] = NthAnalyzedId(cars[r], m)

C19_Witness ==
    \E r \in Reqs :
        /\ RankRan(r)
        /\ NumAnalyzed(r) = PromptCap + 1
        /\ \E k \in RankCalls(r) :
              /\ Len(calls[r][k].ids) = PromptCap
              /\ calls[r][k].ids[PromptCap] = PromptCap

\* The analysis completion for listing `id` of request r fails: it raises or
\* comes back empty.
AnalysisFails(r, id) ==
    LET out == ServiceComplete(svc, upstream[r].analysis[id])
    IN  out.raised \/ out.val = ""

\* C20: within one request the analysis completion is asked for at most once
\* per candidate listing, and a listing whose attempt failed is unanalyzed
\* from then on, in the candidates, the ranking and the result.
C20_NoRetry ==
    \A r \in Reqs :
        /\ \A k, m \in 1..Len(calls[r]) :
              (/\ calls[r][k].op = "analyze" /\ calls[r][m].op = "analyze"
               /\ calls[r][k].arg = calls[r][m].arg) => k = m
        /\ \A i \in 1..Len(cars[r]) :
              (AnalyzeCalled(r, cars[r][i].id) /\ AnalysisFails(r, cars[r][i].id)) =>
                  /\ ~Truthy(cars[r][i].analysis)
                  /\ \A k \in 1..Len(ranked[r]) :
                        ranked[r][k].id = cars[r][i].id => ~Truthy(ranked[r][k].analysis)
                  /\ \A k \in 1..Len(result[r]) :
                        result[r][k].id = cars[r][i].id => ~Truthy(result[r][k].analysis)

C20_Witness ==
    \E r \in Reqs : \E i, j \in 1..Len(cars[r]) :
        /\ pc[r] = "done"
        /\ AnalyzeCalled(r, cars[r][i].id) /\ AnalyzeCalled(r, cars[r][j].id)
        /\ ServiceComplete(svc, upstream[r].analysis[cars[r][i].id]).raised
        /\ ServiceComplete(svc, upstream[r].analysis[cars[r][j].id]) = Ok("")
        /\ Len(calls[r]) = 3

\* The row of listing `id` in the store of request r.
StoredRow(r, id) == Store(r)[PlaceOf(Store(r), id)]

\* The write for listing `id` of request r reports failure after a non-empty
\* completion.
SaveReportsFailure(r, id) ==
    /\ upstream[r].save[id] = "failed"
    /\ ~AnalysisFails(r, id)

\* C21: when update_car_analysis reports failure for a listing whose completion
\* was non-empty, the dictionary still gets the completion text as analysis,
\* what earlier listings got stays in memory and in the store, and the
\* listings after it are still processed.
C21_FailedSaveKeepsAnalysis ==
    \A r \in Reqs : \A i \in 1..Len(cars[r]) :
        (AnalyzeCalled(r, cars[r][i].id) /\ SaveReportsFailure(r, cars[r][i].id)) =>
            /\ cars[r][i].analysis = ServiceComplete(svc, upstream[r].analysis[cars[r][i].id]).val
            /\ ~Truthy(StoredRow(r, cars[r][i].id).analysis)
            /\ \A j \in 1..(i - 1) :
                  (/\ AnalyzeCalled(r, cars[r][j].id)
                   /\ ~AnalysisFails(r, cars[r][j].id)
                   /\ upstream[r].save[cars[r][j].id] = "ok") =>
                      /\ cars[r][j].analysis = NewText(cars[r][j].id)
                      /\ StoredRow(r, cars[r][j].id).analysis = NewText(cars[r][j].id)
            /\ idx[r] > Len(cars[r]) =>
                  \A j \in (i + 1)..Len(cars[r]) :
                      Truthy(cars[r][j].analysis) \/ AnalyzeCalled(r, cars[r][j].id)

C21_Witness ==
    \E r \in Reqs :
        /\ pc[r] = "done"
        /\ Len(cars[r]) = MaxSmall
        /\ SaveReportsFailure(r, cars[r][1].id)
        /\ cars[r][1].analysis = NewText(cars[r][1].id)
        /\ StoredRow(r, cars[r][1].id).analysis = "None"
        /\ AnalyzeCalled(r, cars[r][MaxSmall].id)
        /\ StoredRow(r, cars[r][MaxSmall].id).analysis = NewText(cars[r][MaxSmall].id)
        /\ Len(result[r]) = MaxSmall

\* C22: rank_score does not outlive the ranking: no listing of the ranking, of
\* the returned sequence or of the candidates _rank_cars was given carries a
\* rank_score.
C22_RankScoreEphemeral ==
    \A r \in Reqs :
        /\ \A k \in 1..Len(result[r]) : ~result[r][k].has_score
        /\ \A k \in 1..Len(ranked[r]) : ~ranked[r][k].has_score
        /\ \A k \in 1..Len(cars[r]) : ~cars[r][k].has_score

\* C23: once the store holds a non-empty analysis for a listing, no later
\* write of any request replaces or empties it.
C23_AnalysisAttachedOnce ==
    [][\A d \in Deps : \A i \in 1..Len(db[d]) :
          Truthy(db[d][i].analysis) => db'[d][i].analysis = db[d][i].analysis]_vars

\* C24: the analysis prompt shows "Unknown" for each of year, make, model and
\* price that the listing lacks, be the key absent or its value None.
C24_UnknownForMissing ==
    \A n \in 1..Len(llm_out) :
        /\ ~llm_out[n].raised
        /\ \A k \in 1..Len(PromptFields) :
              llm_out[n].car_data[PromptFields[k]] \in {Absent, "None"} =>
                  llm_out[n].val[k] = PromptLabels[k] \o "Unknown"

\* C25: within one request every analysis call and every write to the store
\* comes before the ranking, which starts only when each candidate has had
\* its turn, and the sequence is returned only after the ranking.
C25_StagesInOrder ==
    /\ [](\A r \in Reqs :
            /\ \A k, m \in 1..Len(calls[r]) :
                  (k < m /\ calls[r][k].op = "rank") => calls[r][m].op \notin {"analyze", "sleep"}
            /\ RankRan(r) =>
                  \A i \in 1..Len(cars[r]) :
                      Truthy(cars[r][i].analysis) \/ AnalyzeCalled(r, cars[r][i].id)
            /\ (pc[r] = "done" /\ Len(cars[r]) > 0) => RankRan(r)
            /\ Len(result[r]) > 0 => pc[r] = "done")
    /\ [][\A r \in Reqs :
            RankRan(r) => (Store(r)' = Store(r) /\ saves' = saves /\ calls'[r] = calls[r])]_vars

C25_Witness ==
    \E r \in Reqs :
        /\ pc[r] = "done"
        /\ Len(ranked[r]) > RankThreshold
        /\ Len(calls[r]) >= 5
        /\ calls[r][Len(calls[r])].op = "rank"
        /\ \E w \in saves : w.dep = home[r]

\* The places in s of the listings mentioned after the start of the text
\* whose window holds no keyword.
BarelyMentionedPlaces(s, text) ==
    {i \in 1..Len(s) :
        /\ Find(text, CarIdentifier(s[i])) > 0
        /\ \A w \in PositiveWords \cup NegativeWords : ~Contains(WindowOf(s[i], text), w)}

\* C26: in the heuristic branch a listing mentioned at an offset p > 0 with no
\* keyword in its window scores below 0 and comes after every listing that is
\* not mentioned.
C26_BareMentionRanksLast ==
    \A r \in Reqs :
        HeuristicDone(r) =>
            \A i \in BarelyMentionedPlaces(ranked[r], RankingOf(r)) :
                /\ ranked[r][i].rank_score < 0
                /\ \A j \in UnmentionedPlaces(ranked[r], RankingOf(r)) : j < i

C26_Witness ==
    \E r \in Reqs :
        /\ HeuristicDone(r)
        /\ RankingOf(r) = LongText
        /\ Len(ranked[r]) \in BarelyMentionedPlaces(ranked[r], RankingOf(r))
        /\ ranked[r][Len(ranked[r])].id < Len(ranked[r])
        /\ UnmentionedPlaces(ranked[r], RankingOf(r)) # {}

\* The ids of the analyzed listings of s.
AnalyzedIds(s) == {s[i].id : i \in {k \in 1..Len(s) : Truthy(s[k].analysis)}}

\* C27: what _rank_cars returns is a permutation of the analyzed listings it
\* was given (each once, none dropped), and on the price-sort fallback a
\* permutation of all the listings it was given.
C27_OutputIsPermutation ==
    \A r \in Reqs :
        (RankRan(r) /\ pc[r] \in {"return", "done"}) =>
            /\ \A k, m \in 1..Len(ranked[r]) : ranked[r][k].id = ranked[r][m].id => k = m
            /\ \A k \in 1..Len(ranked[r]) : \E i \in 1..Len(cars[r]) : cars[r][i] = ranked[r][k]
            /\ Ids(ranked[r]) = IF path[r] = "fallback" THEN Ids(cars[r]) ELSE AnalyzedIds(cars[r])

C27_Witness ==
    \E r \in Reqs :
        /\ pc[r] = "return"
        /\ path[r] = "fallback"
        /\ Len(ranked[r]) > NumAnalyzed(r)
        /\ NumAnalyzed(r) > RankThreshold
        /\ ranked[r][1].id = cars[r][Len(cars[r])].id

====
